---------------------------- MODULE Spec2Model ----------------------------
(***************************************************************************)
(* findr: the filter-and-match pipeline of Command::run (src/src/lib.rs),  *)
(* the predicate types of src/src/filter/ and the exit-status mapping of   *)
(* main (src/src/main.rs).                                                 *)
(*                                                                         *)
(* Environment: the directory walker is a black box that yields, one at a  *)
(* time, an entry or a traversal error; every metadata accessor performs   *)
(* its own probe of the filesystem, whose outcome is chosen when the stage *)
(* runs; SystemTime::now() is read anew by every DurationFilter::matches;  *)
(* a signal (SIGINT or SIGTERM) may be delivered between any two steps.    *)
(* stdout and stderr accept every write (a failing stream is not part of   *)
(* the modelled environment).                                              *)
(***************************************************************************)
EXTENDS Integers, Sequences, FiniteSets, TLC

VARIABLES
    options,    \* options::Options, immutable for the run
    term_sig,   \* the shared Arc<AtomicUsize> cancellation flag
    pc,         \* position of the lazy pipeline / of main
    stage,      \* index (1..9) of the filter_map stage holding the item
    pulled,     \* number of items the walkers have yielded so far
    cur,        \* the item in flight: a Result<EntryImpl, anyhow::Error>, with
                \* its place in the traversal and the flag readings (history)
    evals,      \* history: the stage evaluations done for the item in flight
    out,        \* stdout: one record per line written by print_dirent, with
                \* the item it is for and the flag when it was written (history)
    err,        \* stderr: one record per line written by print_error / main
    result,     \* what run() returned
    exit_code,  \* the status handed to process::exit
    fn_in,      \* input of the pure function under check (function specs)
    fn_out      \* its result

vars == <<options, term_sig, pc, stage, pulled, cur, evals, out, err,
          result, exit_code, fn_in, fn_out>>

pipeVars == <<options, term_sig, pc, stage, pulled, cur, evals, out, err,
              result, exit_code>>

---------------------------------------------------------------------------
(* Bounds *)

\* items the walkers yield in one run, at most
MaxItems == 2
\* filter families configured together in one run of the pipeline, at most
MaxFilters == 2
\* largest byte count / filter operand of the size-function specification
MaxSize == 3
\* longest filter list of the function specifications
MaxLen == 2
\* largest clock reading, instant and duration of the timestamp specification
MaxTime == 1
\* largest of the small modes and masks of the mode-filter specification
MaxOctal == 3
\* largest clock reading, instant and duration (in days) of the
\* duration-filter specification
MaxDays == 4
\* longest owner token of the owner-parsing specification, in characters
MaxToken == 3

(* Program constants *)

SIG_EXIT_MARKER == 128
SIGINT == 2
SIGTERM == 15

---------------------------------------------------------------------------
(* Result<T, E>, Option<T> and the errors *)

Ok(v) == [tag |-> "Ok", v |-> v]
Err(e) == [tag |-> "Err", e |-> e]
\* a panic unwinding out of the expression (no value is produced)
Panic == [tag |-> "Panic"]

None == [tag |-> "None"]
Some(v) == [tag |-> "Some", v |-> v]

\* an anyhow::Error is modelled by the type of the error it wraps and, for
\* findr::Error::Terminated(u), the value u
Terminated(u) == [type |-> "findr::Error", sig |-> u]
WalkdirError == [type |-> "walkdir::Error", sig |-> 0]
IoError == [type |-> "io::Error", sig |-> 0]
TryFromIntError == [type |-> "TryFromIntError", sig |-> 0]
SystemTimeError == [type |-> "SystemTimeError", sig |-> 0]

\* anyhow!(e): an error type converts into anyhow::Error keeping its type for
\* downcasting; an anyhow::Error converts into itself
anyhow(e) == e

\* e.is::<anyhow::Error>(): the wrapped error is never itself an anyhow::Error
is_anyhow_Error(e) == e.type = "anyhow::Error"

\* e.is::<Error>() / e.downcast::<findr::Error>()
is_Error(e) == e.type = "findr::Error"

---------------------------------------------------------------------------
(* Predicate types: src/src/filter/ *)

\* SizeFilter::matches
SizeFilter_matches(f, size) ==
    CASE f.kind = "Equal" -> size = f.n
      [] f.kind = "Less" -> size < f.n
      [] f.kind = "Greater" -> size > f.n

\* bitwise and of two naturals (u32 & u32)
RECURSIVE BitAnd(_, _)
BitAnd(a, b) ==
    IF a = 0 \/ b = 0 THEN 0
    ELSE (IF a % 2 = 1 /\ b % 2 = 1 THEN 1 ELSE 0) + 2 * BitAnd(a \div 2, b \div 2)

\* 0o777
PERM_MASK == 511

\* mutant: Contains too compares against the mode masked to its low 9 bits
OctalFilter_matches_masked(f, o) ==
    CASE f.kind = "Contains" -> f.m = BitAnd(BitAnd(o, PERM_MASK), f.m)
      [] f.kind = "Equal" -> f.m = BitAnd(o, PERM_MASK)
      [] f.kind = "NotContains" -> 0 = BitAnd(o, f.m)

\* OctalFilter::matches
OctalFilter_matches(f, o) ==
    CASE f.kind = "Contains" -> f.m = BitAnd(o, f.m)
      [] f.kind = "Equal" -> f.m = BitAnd(o, PERM_MASK)
      [] f.kind = "NotContains" -> 0 = BitAnd(o, f.m)

\* OwnerFilter::matches
OwnerFilter_matches(f, uid, gid) ==
    CASE f.kind = "User" -> f.uid = uid
      [] f.kind = "Group" -> f.gid = gid
      [] f.kind = "UserGroup" -> f.uid = uid /\ f.gid = gid

\* mutant: the comparisons include the boundary
DurationFilter_matches_inclusive(f, instant, now) ==
    IF now < 0 THEN Err(SystemTimeError)
    ELSE IF f.d > now THEN Panic
    ELSE CASE f.kind = "Less" -> Ok(now - f.d <= instant)
           [] f.kind = "Greater" -> Ok(now - f.d >= instant)

\* DurationFilter::matches. now is the reading of SystemTime::now() relative
\* to UNIX_EPOCH (negative: the clock is before the epoch, duration_since
\* fails); now - d on Duration panics when d exceeds now.
DurationFilter_matches(f, instant, now) ==
    IF now < 0 THEN Err(SystemTimeError)
    ELSE IF f.d > now THEN Panic
    ELSE CASE f.kind = "Less" -> Ok(now - f.d < instant)
           [] f.kind = "Greater" -> Ok(now - f.d > instant)

\* TypeFilter::matches. ent.exec is the outcome of is_executable(ent.path()).
TypeFilter_matches(t, ent) ==
    CASE t = "Dir" -> ent.ftype = "dir"
      [] t = "Executable" -> ent.exec
      [] t = "File" -> ent.ftype = "file"
      [] t = "Pipe" -> ent.ftype = "fifo"
      [] t = "Socket" -> ent.ftype = "socket"
      [] t = "SymLink" -> ent.ftype = "symlink"

---------------------------------------------------------------------------
(* Entry accessors: src/src/entry.rs.  ent.md_x is the outcome of the      *)
(* metadata() probe made by accessor x: Ok(raw value) or Err(IoError).     *)

EntryImpl_path(ent) == ent.path
EntryImpl_file_type(ent) == ent.ftype

EntryImpl_uid(ent) == ent.md_uid
EntryImpl_gid(ent) == ent.md_gid
EntryImpl_mode(ent) == ent.md_mode
EntryImpl_size(ent) == ent.md_size

\* i64 seconds -> u64 by try_into
TryIntoU64(r) ==
    IF r.tag = "Err" THEN r
    ELSE IF r.v < 0 THEN Err(TryFromIntError) ELSE Ok(r.v)

EntryImpl_atime(ent) == TryIntoU64(ent.md_atime)
EntryImpl_ctime(ent) == TryIntoU64(ent.md_ctime)
EntryImpl_mtime(ent) == TryIntoU64(ent.md_mtime)

\* created()?.duration_since(UNIX_EPOCH)?.as_secs()
EntryImpl_created_time(ent) ==
    IF ent.md_created.tag = "Err" THEN ent.md_created
    ELSE IF ent.md_created.v < 0 THEN Err(SystemTimeError)
    ELSE Ok(ent.md_created.v)

---------------------------------------------------------------------------
(* The stage predicates of Command: src/src/lib.rs *)

\* Regex::is_match for the patterns of the model: a path is the sequence of
\* its parts, the extension last, and the pattern "\.<ext>$" is <<".<ext>">>
is_match(p, path) ==
    /\ Len(path) >= Len(p)
    /\ SubSeq(path, Len(path) - Len(p) + 1, Len(path)) = p

\* what a stage predicate did: its Result<bool> and the Entry accessors it
\* called, in call order
Did(res, calls) == [res |-> res, calls |-> calls]

matches_pattern(o, ent) ==
    IF o.pattern.tag = "None" THEN Did(Ok(TRUE), <<>>)
    ELSE Did(Ok(is_match(o.pattern.v, EntryImpl_path(ent))), <<"path">>)

matches_owner(o, ent) ==
    IF o.owner.tag = "None" THEN Did(Ok(TRUE), <<>>)
    ELSE LET uid == EntryImpl_uid(ent)
             gid == EntryImpl_gid(ent)
         IN  IF uid.tag = "Err" THEN Did(uid, <<"uid">>)
             ELSE IF gid.tag = "Err" THEN Did(gid, <<"uid", "gid">>)
             ELSE Did(Ok(OwnerFilter_matches(o.owner.v, uid.v, gid.v)),
                      <<"uid", "gid">>)

\* mutant: the mode is fetched before the option is looked at
matches_mode_eager(o, ent) ==
    LET mode == EntryImpl_mode(ent)
    IN  IF mode.tag = "Err" THEN Did(mode, <<"mode">>)
        ELSE IF o.mode.tag = "None" THEN Did(Ok(TRUE), <<"mode">>)
        ELSE Did(Ok(OctalFilter_matches(o.mode.v, mode.v)), <<"mode">>)

matches_mode(o, ent) ==
    IF o.mode.tag = "None" THEN Did(Ok(TRUE), <<>>)
    ELSE LET mode == EntryImpl_mode(ent)
         IN  IF mode.tag = "Err" THEN Did(mode, <<"mode">>)
             ELSE Did(Ok(OctalFilter_matches(o.mode.v, mode.v)), <<"mode">>)

\* mutant: every type filter must match (all instead of any)
any_type_all(filters, ent) ==
    \A i \in 1..Len(filters) : TypeFilter_matches(filters[i], ent)

\* iter().any(|t| t.matches(ent))
any_type(filters, ent) ==
    \E i \in 1..Len(filters) : TypeFilter_matches(filters[i], ent)

matches_type_filters(o, ent) ==
    IF o.type_filters = <<>> THEN Did(Ok(TRUE), <<>>)
    ELSE Did(Ok(any_type(o.type_filters, ent)), <<"file_type">>)

\* mutant: the fold keeps the last filter's answer and forgets acc
RECURSIVE size_fold_last(_, _, _, _)
size_fold_last(filters, size, i, acc) ==
    IF i > Len(filters) THEN Ok(acc)
    ELSE size_fold_last(filters, size, i + 1, SizeFilter_matches(filters[i], size))

\* try_fold(true, |acc, f| Ok(f.matches(size) && acc)) from element i on
RECURSIVE size_fold(_, _, _, _)
size_fold(filters, size, i, acc) ==
    IF i > Len(filters) THEN Ok(acc)
    ELSE size_fold(filters, size, i + 1, SizeFilter_matches(filters[i], size) /\ acc)

matches_size_filters(o, ent) ==
    IF o.size_filters = <<>> THEN Did(Ok(TRUE), <<>>)
    ELSE LET size == EntryImpl_size(ent)
         IN  IF size.tag = "Err" THEN Did(size, <<"size">>)
             ELSE Did(size_fold(o.size_filters, size.v, 1, TRUE), <<"size">>)

\* mutant: the fold combines the answers with || instead of &&
RECURSIVE time_fold_or(_, _, _, _, _)
time_fold_or(filters, time, nows, i, acc) ==
    IF i > Len(filters) THEN Ok(acc)
    ELSE LET r == DurationFilter_matches(filters[i], time, nows[i])
         IN  IF r.tag # "Ok" THEN r
             ELSE time_fold_or(filters, time, nows, i + 1,
                               r.v \/ (acc /\ i > 1))

\* try_fold(true, |acc, t| t.matches(time).map(|b| b && acc)) from element i
\* on; nows[i] is the clock reading of the i-th call of matches
RECURSIVE time_fold(_, _, _, _, _)
time_fold(filters, time, nows, i, acc) ==
    IF i > Len(filters) THEN Ok(acc)
    ELSE LET r == DurationFilter_matches(filters[i], time, nows[i])
         IN  IF r.tag # "Ok" THEN r
             ELSE time_fold(filters, time, nows, i + 1, r.v /\ acc)

matches_atime_filters(o, ent, nows) ==
    IF o.atime_filters = <<>> THEN Did(Ok(TRUE), <<>>)
    ELSE LET atime == EntryImpl_atime(ent)
         IN  IF atime.tag = "Err" THEN Did(atime, <<"atime">>)
             ELSE Did(time_fold(o.atime_filters, atime.v, nows, 1, TRUE),
                      <<"atime">>)

matches_ctime_filters(o, ent, nows) ==
    IF o.ctime_filters = <<>> THEN Did(Ok(TRUE), <<>>)
    ELSE LET ctime == EntryImpl_ctime(ent)
         IN  IF ctime.tag = "Err" THEN Did(ctime, <<"ctime">>)
             ELSE Did(time_fold(o.ctime_filters, ctime.v, nows, 1, TRUE),
                      <<"ctime">>)

matches_creation_time_filters(o, ent, nows) ==
    IF o.creation_time_filters = <<>> THEN Did(Ok(TRUE), <<>>)
    ELSE LET creation_time == EntryImpl_created_time(ent)
         IN  IF creation_time.tag = "Err"
             THEN Did(creation_time, <<"created_time">>)
             ELSE Did(time_fold(o.creation_time_filters, creation_time.v, nows,
                                1, TRUE),
                      <<"created_time">>)

matches_mtime_filters(o, ent, nows) ==
    IF o.mtime_filters = <<>> THEN Did(Ok(TRUE), <<>>)
    ELSE LET mtime == EntryImpl_mtime(ent)
         IN  IF mtime.tag = "Err" THEN Did(mtime, <<"mtime">>)
             ELSE Did(time_fold(o.mtime_filters, mtime.v, nows, 1, TRUE),
                      <<"mtime">>)

\* mutant: an entry that does not match is kept
filter_bool_result_keep(res, val) ==
    CASE res.tag = "Ok" -> Some(Ok(val))
      [] res.tag = "Err" -> Some(Err(res.e))

\* mutant: a failed predicate counts as a non-match (res.unwrap_or(false))
filter_bool_result_swallow(res, val) ==
    CASE res.tag = "Ok" /\ res.v -> Some(Ok(val))
      [] res.tag = "Ok" /\ ~res.v -> None
      [] res.tag = "Err" -> None

filter_bool_result(res, val) ==
    CASE res.tag = "Ok" /\ res.v -> Some(Ok(val))
      [] res.tag = "Ok" /\ ~res.v -> None
      [] res.tag = "Err" -> Some(Err(res.e))

\* mutant: the size stage is chained before the type stage
matches_stage_size_first(k, o, ent, nows) ==
    CASE k = 1 -> matches_pattern(o, ent)
      [] k = 2 -> matches_owner(o, ent)
      [] k = 3 -> matches_mode(o, ent)
      [] k = 4 -> matches_size_filters(o, ent)
      [] k = 5 -> matches_type_filters(o, ent)
      [] k = 6 -> matches_atime_filters(o, ent, nows)
      [] k = 7 -> matches_ctime_filters(o, ent, nows)
      [] k = 8 -> matches_creation_time_filters(o, ent, nows)
      [] k = 9 -> matches_mtime_filters(o, ent, nows)

\* the predicate of the k-th filter_map stage of Command::run
matches_stage(k, o, ent, nows) ==
    CASE k = 1 -> matches_pattern(o, ent)
      [] k = 2 -> matches_owner(o, ent)
      [] k = 3 -> matches_mode(o, ent)
      [] k = 4 -> matches_type_filters(o, ent)
      [] k = 5 -> matches_size_filters(o, ent)
      [] k = 6 -> matches_atime_filters(o, ent, nows)
      [] k = 7 -> matches_ctime_filters(o, ent, nows)
      [] k = 8 -> matches_creation_time_filters(o, ent, nows)
      [] k = 9 -> matches_mtime_filters(o, ent, nows)

StageNames ==
    <<"pattern", "owner", "mode", "type", "size",
      "atime", "ctime", "creation_time", "mtime">>

NumStages == Len(StageNames)

---------------------------------------------------------------------------
(* The inputs of a run *)

NoOptions ==
    [show_errors |-> FALSE, pattern |-> None, owner |-> None, mode |-> None,
     type_filters |-> <<>>, size_filters |-> <<>>, atime_filters |-> <<>>,
     ctime_filters |-> <<>>, creation_time_filters |-> <<>>,
     mtime_filters |-> <<>>]

\* the filter each family is configured with when it is configured
\* (0o444 = 292)
Configured ==
    [pattern |-> Some(<<".md">>),
     owner |-> Some([kind |-> "UserGroup", uid |-> 1, gid |-> 1]),
     mode |-> Some([kind |-> "Equal", m |-> 292]),
     type_filters |-> <<"File", "SymLink">>,
     size_filters |-> <<[kind |-> "Greater", n |-> 0], [kind |-> "Less", n |-> 100]>>,
     atime_filters |-> <<[kind |-> "Greater", d |-> 2]>>,
     ctime_filters |-> <<[kind |-> "Less", d |-> 2]>>,
     creation_time_filters |-> <<[kind |-> "Greater", d |-> 2]>>,
     mtime_filters |-> <<[kind |-> "Greater", d |-> 2], [kind |-> "Less", d |-> 3]>>]

Families == DOMAIN Configured

OptionsWith(fams, show) ==
    [f \in DOMAIN NoOptions |->
        IF f = "show_errors" THEN show
        ELSE IF f \in fams THEN Configured[f] ELSE NoOptions[f]]

OptionsSet ==
    { OptionsWith(fams, show) :
        fams \in { F \in SUBSET Families : Cardinality(F) <= MaxFilters },
        show \in BOOLEAN }

\* what a walker yields: Ok(DirEntry) or Err(walkdir::Error)
WalkEntries ==
    { [path |-> <<"a", ".txt">>, ftype |-> "file"],
      [path |-> <<"one", "b", ".md">>, ftype |-> "file"],
      [path |-> <<"one">>, ftype |-> "dir"],
      [path |-> <<"three", "d", ".txt">>, ftype |-> "symlink"] }

WalkItems == { Ok(e) : e \in WalkEntries } \cup { Err(WalkdirError) }

\* the outcomes of the probes an accessor may see (0o100444, 0o100644)
MdUid == { Ok(1), Ok(2), Err(IoError) }
MdGid == { Ok(1), Err(IoError) }
MdMode == { Ok(33060), Ok(33188), Err(IoError) }
MdSize == { Ok(0), Ok(50), Ok(200), Err(IoError) }
MdTime == { Ok(-1), Ok(0), Ok(2), Err(IoError) }
NowSet == { -1, 1, 3 }

\* EntryImpl::from(DirEntry), with the probes not yet made
EntryImpl_from(d) ==
    [path |-> d.path, ftype |-> d.ftype, exec |-> FALSE,
     md_uid |-> Ok(0), md_gid |-> Ok(0), md_mode |-> Ok(0), md_size |-> Ok(0),
     md_atime |-> Ok(0), md_ctime |-> Ok(0), md_created |-> Ok(0),
     md_mtime |-> Ok(0)]

\* the entry as stage k sees it: the probes of the accessors it calls
Probes(k, o, ent) ==
    CASE k = 2 /\ o.owner.tag # "None" ->
            { [ent EXCEPT !.md_uid = u, !.md_gid = g] : u \in MdUid, g \in MdGid }
      [] k = 3 /\ o.mode.tag # "None" ->
            { [ent EXCEPT !.md_mode = m] : m \in MdMode }
      [] k = 5 /\ o.size_filters # <<>> ->
            { [ent EXCEPT !.md_size = z] : z \in MdSize }
      [] k = 6 /\ o.atime_filters # <<>> ->
            { [ent EXCEPT !.md_atime = t] : t \in MdTime }
      [] k = 7 /\ o.ctime_filters # <<>> ->
            { [ent EXCEPT !.md_ctime = t] : t \in MdTime }
      [] k = 8 /\ o.creation_time_filters # <<>> ->
            { [ent EXCEPT !.md_created = t] : t \in MdTime }
      [] k = 9 /\ o.mtime_filters # <<>> ->
            { [ent EXCEPT !.md_mtime = t] : t \in MdTime }
      [] OTHER -> { ent }

\* the filter list whose matches calls read the clock in stage k
TimeFilters(k, o) ==
    CASE k = 6 -> o.atime_filters
      [] k = 7 -> o.ctime_filters
      [] k = 8 -> o.creation_time_filters
      [] k = 9 -> o.mtime_filters
      [] OTHER -> <<>>

Clocks(k, o) == [1..Len(TimeFilters(k, o)) -> NowSet]

---------------------------------------------------------------------------
(* Command::run and main *)

Idle ==
    [idx |-> 0, r |-> None, last |-> FALSE, sig_at_pull |-> 0, loaded |-> 0]

\* mutant: the flag is consulted for entries only, a traversal error passes
map_closure_entries_only(sig, r) ==
    IF r.tag = "Err" THEN Err(anyhow(r.e))
    ELSE IF sig = 0 THEN Ok(EntryImpl_from(r.v))
    ELSE Err(anyhow(Terminated(sig)))

\* mutant: only SIGTERM ends the run
map_closure_sigterm_only(sig, r) ==
    IF sig # SIGTERM
    THEN IF r.tag = "Ok" THEN Ok(EntryImpl_from(r.v)) ELSE Err(anyhow(r.e))
    ELSE Err(anyhow(Terminated(sig)))

\* mutant: the flag is read once, before the first item, and not again
map_closure_stale(sig, r) ==
    IF r.tag = "Ok" THEN Ok(EntryImpl_from(r.v)) ELSE Err(anyhow(r.e))

\* the closure of the map adapter: the flag is loaded when the item arrives
map_closure(sig, r) ==
    IF sig = 0
    THEN IF r.tag = "Ok" THEN Ok(EntryImpl_from(r.v)) ELSE Err(anyhow(r.e))
    ELSE Err(anyhow(Terminated(sig)))

\* mutant: a stage wraps the error it passes on in a new message error
\* (anyhow!("{e}")), losing its type
stage_closure_rewrap(k, o, r, probe, nows) ==
    IF r.tag = "Ok"
    THEN LET res == matches_stage(k, o, probe, nows).res
         IN  IF res.tag = "Panic" THEN Panic ELSE filter_bool_result(res, r.v)
    ELSE Some(Err([type |-> "adhoc", sig |-> 0]))

\* the closure of the k-th filter_map adapter; probe is the entry as the
\* stage's accessors see it
stage_closure(k, o, r, probe, nows) ==
    IF r.tag = "Ok"
    THEN LET res == matches_stage(k, o, probe, nows).res
         IN  IF res.tag = "Panic" THEN Panic ELSE filter_bool_result(res, r.v)
    ELSE IF is_anyhow_Error(r.e) THEN Some(Err(r.e))
    ELSE Some(Err(anyhow(r.e)))

\* mutant: the line is written twice
print_dirent_twice(o, idx, ent, sig) ==
    LET l == [idx |-> idx, line |-> EntryImpl_path(ent), late |-> sig # 0]
    IN  Append(Append(o, l), l)

\* print_dirent: the line written to stdout (sig: the flag at that moment)
print_dirent(o, idx, ent, sig) ==
    Append(o, [idx |-> idx, line |-> EntryImpl_path(ent), late |-> sig # 0])

\* mutant: the show_errors switch is not consulted
print_error_always(o, e, idx, e_err) ==
    Append(e_err, [idx |-> idx, line |-> e.type])

\* Command::print_error: stderr after the call
print_error(o, e, idx, e_err) ==
    IF o.show_errors THEN Append(e_err, [idx |-> idx, line |-> e.type]) ELSE e_err

\* main: the exit status for the result of run
main_code(res) ==
    IF res.tag = "Ok" THEN 0
    ELSE IF is_Error(res.e) THEN res.e.sig + SIG_EXIT_MARKER
    ELSE 1

Init ==
    /\ options \in OptionsSet
    /\ term_sig = 0
    /\ pc = "pull"
    /\ stage = 0
    /\ pulled = 0
    /\ cur = Idle
    /\ evals = <<>>
    /\ out = <<>>
    /\ err = <<>>
    /\ result = None
    /\ exit_code = -1
    /\ fn_in = None
    /\ fn_out = None

\* signal_hook stores the signal number in the flag when the signal arrives
Signal ==
    /\ pc \notin {"exited", "panicked"}
    /\ \E s \in {SIGINT, SIGTERM} :
          /\ term_sig # s
          /\ term_sig' = s
    /\ UNCHANGED <<options, pc, stage, pulled, cur, evals, out, err, result,
                   exit_code, fn_in, fn_out>>

\* flat_map: a walker yields its next item; last: the walkers have nothing
\* after it (the traversal of a run has at most MaxItems items)
Pull ==
    /\ pc = "pull"
    /\ pulled < MaxItems
    /\ pulled = 0 \/ ~cur.last
    /\ \E r \in WalkItems,
          l \in (IF pulled + 1 = MaxItems THEN {TRUE} ELSE BOOLEAN) :
          cur' = [idx |-> pulled + 1, r |-> r, last |-> l,
                  sig_at_pull |-> term_sig, loaded |-> 0]
    /\ pulled' = pulled + 1
    /\ evals' = <<>>
    /\ pc' = "load"
    /\ UNCHANGED <<options, term_sig, stage, out, err, result, exit_code,
                   fn_in, fn_out>>

\* mutant: the flag is looked at once more when the walkers are exhausted
Exhausted_checks_flag ==
    /\ pc = "pull"
    /\ pulled = 0 \/ cur.last
    /\ result' = IF term_sig = 0 THEN Ok("unit") ELSE Err(Terminated(term_sig))
    /\ pc' = "returned"
    /\ UNCHANGED <<options, term_sig, stage, pulled, cur, evals, out, err,
                   exit_code, fn_in, fn_out>>

\* flat_map: the last walker is exhausted; try_for_each returns Ok(())
Exhausted ==
    /\ pc = "pull"
    /\ pulled = 0 \/ cur.last
    /\ result' = Ok("unit")
    /\ pc' = "returned"
    /\ UNCHANGED <<options, term_sig, stage, pulled, cur, evals, out, err,
                   exit_code, fn_in, fn_out>>

\* map: the flag is loaded and the item converted
Load ==
    /\ pc = "load"
    /\ cur' = [cur EXCEPT !.r = map_closure(term_sig, cur.r),
                          !.loaded = term_sig]
    /\ pc' = "stage"
    /\ stage' = 1
    /\ UNCHANGED <<options, term_sig, pulled, evals, out, err, result,
                   exit_code, fn_in, fn_out>>

\* the item leaves stage k for the next stage or for try_for_each
Advance ==
    IF stage = NumStages
    THEN pc' = "each" /\ stage' = 0
    ELSE pc' = "stage" /\ stage' = stage + 1

\* the record of one evaluation of a stage predicate
EvalRec(k, did) ==
    [stage |-> k, calls |-> did.calls,
     res |-> IF did.res.tag = "Ok" THEN (IF did.res.v THEN "true" ELSE "false")
             ELSE did.res.tag]

\* one filter_map stage handles the item in flight
Stage ==
    /\ pc = "stage"
    /\ \E probe \in (IF cur.r.tag = "Ok" THEN Probes(stage, options, cur.r.v)
                     ELSE {None}),
          nows \in Clocks(stage, options) :
          LET x == stage_closure(stage, options, cur.r, probe, nows)
          IN  /\ evals' = IF cur.r.tag = "Err" THEN evals
                          ELSE Append(evals,
                                   EvalRec(stage,
                                       matches_stage(stage, options, probe, nows)))
              /\ IF x.tag = "Panic"
                 THEN /\ pc' = "panicked"
                      /\ exit_code' = 101
                      /\ UNCHANGED <<stage, cur>>
                 ELSE IF x.tag = "None"
                 THEN /\ pc' = "pull"
                      /\ stage' = 0
                      /\ UNCHANGED <<cur, exit_code>>
                 ELSE /\ cur' = [cur EXCEPT !.r = x.v]
                      /\ Advance
                      /\ UNCHANGED exit_code
    /\ UNCHANGED <<options, term_sig, pulled, out, err, result, fn_in, fn_out>>

\* try_for_each: Ok(ent) => print_dirent(&mut out, ent)
PrintDirent ==
    /\ pc = "each"
    /\ cur.r.tag = "Ok"
    /\ out' = print_dirent(out, cur.idx, cur.r.v, term_sig)
    /\ pc' = "pull"
    /\ UNCHANGED <<options, term_sig, stage, pulled, cur, evals, err, result,
                   exit_code, fn_in, fn_out>>

\* try_for_each: Err(e) if e.is::<Error>() => Err(e); run returns it
Abort ==
    /\ pc = "each"
    /\ cur.r.tag = "Err"
    /\ is_Error(cur.r.e)
    /\ result' = Err(cur.r.e)
    /\ pc' = "returned"
    /\ UNCHANGED <<options, term_sig, stage, pulled, cur, evals, out, err,
                   exit_code, fn_in, fn_out>>

\* try_for_each: Err(e) => self.print_error(&mut err, e)
PrintError ==
    /\ pc = "each"
    /\ cur.r.tag = "Err"
    /\ ~is_Error(cur.r.e)
    /\ err' = print_error(options, cur.r.e, cur.idx, err)
    /\ pc' = "pull"
    /\ UNCHANGED <<options, term_sig, stage, pulled, cur, evals, out, result,
                   exit_code, fn_in, fn_out>>

\* main: the result of run becomes the exit status
Main ==
    /\ pc = "returned"
    /\ exit_code' = main_code(result)
    /\ err' = IF result.tag = "Err" /\ ~is_Error(result.e)
              THEN Append(err, [idx |-> 0, line |-> result.e.type])
              ELSE err
    /\ pc' = "exited"
    /\ UNCHANGED <<options, term_sig, stage, pulled, cur, evals, out, result,
                   fn_in, fn_out>>

Next ==
    \/ Signal
    \/ Pull
    \/ Exhausted
    \/ Load
    \/ Stage
    \/ PrintDirent
    \/ Abort
    \/ PrintError
    \/ Main

Spec == Init /\ [][Next]_vars

---------------------------------------------------------------------------
(* Properties of the pipeline, checked under Spec *)

Last(q) == q[Len(q)]

\* the item in flight has been through the map adapter
Loaded == cur.idx > 0 /\ pc # "load"

\* the accessors the predicate of each stage may call
StageAccessors ==
    <<{"path"}, {"uid", "gid"}, {"mode"}, {"file_type"}, {"size"},
      {"atime"}, {"ctime"}, {"created_time"}, {"mtime"}>>

Range(q) == { q[i] : i \in DOMAIN q }

\* C1: an item that arrives while the flag holds v # 0 becomes Terminated(v)
\* with no stage predicate evaluated for it; it is neither dropped nor
\* printed, run returns Terminated(v) and main exits with v + 128, which is
\* neither 0 nor 1.
C1_FlagSetTerminates ==
    (Loaded /\ cur.loaded # 0) =>
        /\ pc \in {"stage", "each", "returned", "exited"}
        /\ cur.r = Err(Terminated(cur.loaded))
        /\ evals = <<>>
        /\ pc \in {"returned", "exited"} => result = Err(Terminated(cur.loaded))
        /\ pc = "exited" =>
              /\ exit_code = cur.loaded + SIG_EXIT_MARKER
              /\ exit_code \notin {0, 1}

C1_Witness ==
    /\ pc = "exited"
    /\ cur.loaded = SIGTERM
    /\ cur.sig_at_pull = 0
    /\ exit_code = SIGTERM + SIG_EXIT_MARKER

\* C2: a line is written to stdout only for an item that was pulled while the
\* flag was still zero, and once an item has met a nonzero flag nothing more
\* is written and nothing more is pulled.
C2_NoOutputAfterSignal ==
    [][ /\ out' # out => cur.sig_at_pull = 0
        /\ (Loaded /\ cur.loaded # 0) => (out' = out /\ pulled' = pulled)
      ]_vars

C2_Witness ==
    /\ pc = "exited"
    /\ pulled = 2
    /\ cur.sig_at_pull # 0
    /\ Len(out) = 1

\* C3: Terminated leaves every one of the nine stages as it entered it, and
\* try_for_each returns it as the result of run whatever show_errors is,
\* writing nothing; stderr never holds a line for it.
C3_TerminatedPropagates ==
    /\ [](\A i \in DOMAIN err : err[i].line # "findr::Error")
    /\ [][ (cur.r.tag = "Err" /\ is_Error(cur.r.e) /\ <<pc, stage>>' # <<pc, stage>>) =>
             /\ pc = "stage" =>
                   /\ cur' = cur
                   /\ IF stage < NumStages
                      THEN pc' = "stage" /\ stage' = stage + 1
                      ELSE pc' = "each"
             /\ pc = "each" =>
                   /\ pc' = "returned"
                   /\ result' = Err(cur.r.e)
                   /\ out' = out /\ err' = err
         ]_vars

C3_Witness ==
    /\ pc = "exited"
    /\ result = Err(Terminated(SIGINT))
    /\ ~options.show_errors
    /\ err = <<>>

C5_MissingRootFails ==
    ( /\ pc = "exited"
      /\ options = NoOptions
      /\ term_sig = 0
      /\ pulled = 1
      /\ cur.r = Err(WalkdirError) ) =>
        /\ exit_code # 0
        /\ \E i \in DOMAIN err : err[i].line = "walkdir::Error"

\* C6: the predicates are evaluated for an entry in the order pattern, owner,
\* mode, type, size, atime, ctime, creation time, mtime: the i-th evaluation
\* is stage i's and calls only stage i's accessors, and it takes place only
\* if every earlier one returned Ok(true); an Ok(false) drops the entry: the
\* entry is still Ok, no later predicate is evaluated, nothing is written
\* and the pipeline pulls the next item.
C6_StageOrder ==
    /\ [](\A i \in DOMAIN evals :
             /\ evals[i].stage = i
             /\ Range(evals[i].calls) \subseteq StageAccessors[i]
             /\ i < Len(evals) => evals[i].res = "true")
    /\ []((evals # <<>> /\ Last(evals).res = "false") =>
             /\ pc \in {"pull", "returned", "exited"}
             /\ cur.r.tag = "Ok")
    /\ [][ (evals' # evals /\ evals' # <<>> /\ Last(evals').res = "false") =>
             /\ pc' = "pull"
             /\ out' = out /\ err' = err /\ result' = result
         ]_vars

\* an entry passed pattern and owner and was dropped by the size stage
C6_Witness ==
    /\ options.owner.tag = "Some"
    /\ options.size_filters # <<>>
    /\ Len(evals) = 5
    /\ evals[2].calls = <<"uid", "gid">>
    /\ evals[5].res = "false"
    /\ pc = "pull"

\* C7: when a stage predicate fails for an entry (every earlier one having
\* returned Ok(true)), the entry becomes that one error, which is not
\* Terminated; no later predicate is evaluated for it, no line of stdout is
\* its, and at most one line of stderr is.
C7_FetchFailure ==
    /\ []((evals # <<>> /\ Last(evals).res = "Err") =>
             /\ cur.r.tag = "Err"
             /\ cur.r.e \in {IoError, TryFromIntError, SystemTimeError}
             /\ \A i \in DOMAIN out : out[i].idx # cur.idx
             /\ Cardinality({ i \in DOMAIN err : err[i].idx = cur.idx }) <= 1
             /\ pc \in {"stage", "each", "pull", "returned", "exited"})
    /\ [][ (evals # <<>> /\ Last(evals).res = "Err") =>
             /\ evals' \in {evals, <<>>}
             /\ out' = out
         ]_vars

\* the size of an entry that matched the owner filter could not be fetched
C7_Witness ==
    /\ Len(evals) = 5
    /\ evals[2].calls = <<"uid", "gid">>
    /\ evals[5] = [stage |-> 5, calls |-> <<"size">>, res |-> "Err"]
    /\ pc = "pull"
    /\ options.show_errors
    /\ Len(err) = 1

\* C12: the lines of stdout are, in order, the paths of traversal items with
\* strictly increasing positions in the traversal: a write appends exactly
\* one line, the path the walker yielded for the item in flight, and only
\* after all nine predicates returned Ok(true) for it; no item has two lines.
C12_OutputSubsequence ==
    /\ [](\A i \in DOMAIN out :
             /\ out[i].idx \in 1..pulled
             /\ i > 1 => out[i - 1].idx < out[i].idx)
    /\ [][ (cur'.idx = cur.idx /\ cur'.r.tag = "Ok") =>
             /\ cur.r.tag = "Ok"
             /\ cur'.r.v.path = cur.r.v.path
         ]_vars
    /\ [][ out' # out =>
             /\ cur.r.tag = "Ok"
             /\ out' = Append(out, [idx |-> cur.idx, line |-> cur.r.v.path,
                                    late |-> term_sig # 0])
             /\ Len(evals) = NumStages
             /\ \A i \in DOMAIN evals : evals[i].res = "true"
         ]_vars

\* two entries were yielded and both written, in traversal order
C12_Witness ==
    /\ pc = "exited"
    /\ Len(out) = 2
    /\ out[1].idx = 1 /\ out[2].idx = 2
    /\ out[1].line = <<"one">>
    /\ out[2].line = <<"one", "b", ".md">>

\* C18 as claimed: if the flag was still zero when the last item of the
\* traversal was pulled from its walker, run returns Ok and the process
\* exits with status 0.
C18_LateSignalIgnored ==
    (pc = "exited" /\ cur.last /\ cur.sig_at_pull = 0) =>
        /\ result = Ok("unit")
        /\ exit_code = 0

\* C18 as amended: if the flag was still zero when the map adapter loaded it
\* for the last item of the traversal (or the traversal is empty), a signal
\* that arrives later is never observed: the exit status is never the signal
\* number + 128, and when run returns it returns Ok and the status is 0.
C18_LateSignalAfterCheck ==
    ( /\ pc \in {"returned", "exited", "panicked"}
      /\ pulled = 0 \/ (cur.last /\ cur.loaded = 0) ) =>
        /\ exit_code \notin {SIGINT + SIG_EXIT_MARKER, SIGTERM + SIG_EXIT_MARKER}
        /\ pc # "panicked" => result = Ok("unit")
        /\ pc = "exited" => exit_code = 0

\* the signal arrived while the last entry was in the stages; the entry was
\* written and the process exited with 0
C18_Witness ==
    /\ pc = "exited"
    /\ cur.last /\ cur.loaded = 0
    /\ term_sig = SIGTERM
    /\ out # <<>> /\ Last(out).idx = cur.idx /\ Last(out).late
    /\ exit_code = 0

\* C19: at most one line of stdout is written while the flag is nonzero, and
\* it is for the item in flight, for which the map adapter had loaded the
\* flag as zero.
C19_OneLateOutput ==
    /\ [](Cardinality({ i \in DOMAIN out : out[i].late }) <= 1)
    /\ [][ (out' # out /\ term_sig # 0) =>
             /\ Loaded /\ cur.loaded = 0
             /\ Last(out').idx = cur.idx
         ]_vars

\* the first entry was written before the signal, the second after it
C19_Witness ==
    /\ Len(out) = 2
    /\ ~out[1].late
    /\ out[2].late
    /\ pc = "exited"

\* the lines of stdout, and of stderr, that are for the k-th item
OutOf(k) == { i \in DOMAIN out : out[i].idx = k }
ErrOf(k) == { i \in DOMAIN err : err[i].idx = k }

---------------------------------------------------------------------------
(* The list stages as functions of their inputs: one stage of the pipeline *)
(* is applied to one entry, for every filter list and probe outcome within *)
(* the bounds.                                                             *)

\* sequences over S of length 0..n
SeqsUpTo(S, n) == UNION { [1..k -> S] : k \in 0..n }

TheEntry == EntryImpl_from([path |-> <<"a", ".txt">>, ftype |-> "file"])

\* pipeline variables while a single stage is exercised
FnIdle ==
    /\ options = NoOptions
    /\ term_sig = 0
    /\ pc = "fn"
    /\ stage = 0
    /\ pulled = 0
    /\ cur = Idle
    /\ evals = <<>>
    /\ out = <<>>
    /\ err = <<>>
    /\ result = None
    /\ exit_code = -1

\* stage k applied to Ok(entry): what the predicate did and what the stage
\* yields
Apply(k, o, probe, nows) ==
    [did |-> matches_stage(k, o, probe, nows),
     x |-> stage_closure(k, o, Ok(TheEntry), probe, nows)]

(* size *)

SizeFilterSet ==
    { [kind |-> c, n |-> n] : c \in {"Less", "Greater", "Equal"}, n \in 0..MaxSize }

\* the list of the end-to-end example: Greater(0), Less(100)
SizeExample == <<[kind |-> "Greater", n |-> 0], [kind |-> "Less", n |-> 100]>>

InitSize ==
    /\ FnIdle
    /\ \/ \E fs \in SeqsUpTo(SizeFilterSet, MaxLen),
             z \in { Ok(n) : n \in 0..(MaxSize + 1) } \cup { Err(IoError) } :
             fn_in = [filters |-> fs, md_size |-> z]
       \/ \E n \in {0, 50, 200} :
             fn_in = [filters |-> SizeExample, md_size |-> Ok(n)]
    /\ fn_out = None

ApplySize ==
    /\ pc = "fn"
    /\ fn_out = None
    /\ fn_out' = Apply(5, [NoOptions EXCEPT !.size_filters = fn_in.filters],
                       [TheEntry EXCEPT !.md_size = fn_in.md_size], <<>>)
    /\ UNCHANGED <<pipeVars, fn_in>>

NextSize == ApplySize

SpecSize == InitSize /\ [][NextSize]_vars

\* what the claim says a size filter matches
SizeMatch(f, z) ==
    \/ f.kind = "Equal" /\ z = f.n
    \/ f.kind = "Less" /\ z < f.n
    \/ f.kind = "Greater" /\ z > f.n

\* C8: with a non-empty list of size filters and a size that can be fetched,
\* the size stage passes the entry on if every filter of the list matches the
\* size, and drops it otherwise.
C8_SizeAnd ==
    (fn_out # None /\ fn_in.filters # <<>> /\ fn_in.md_size.tag = "Ok") =>
        IF \A i \in DOMAIN fn_in.filters : SizeMatch(fn_in.filters[i], fn_in.md_size.v)
        THEN fn_out.x = Some(Ok(TheEntry))
        ELSE fn_out.x = None

\* Greater(0), Less(100) passes a size of 50
C8_Witness ==
    /\ fn_in.filters = SizeExample
    /\ fn_in.md_size = Ok(50)
    /\ fn_out # None
    /\ fn_out.x = Some(Ok(TheEntry))

(* type *)

TypeFilterSet == {"Dir", "Executable", "File", "Pipe", "Socket", "SymLink"}

FileTypes == {"file", "dir", "symlink", "fifo", "socket"}

InitType ==
    /\ FnIdle
    /\ \E fs \in SeqsUpTo(TypeFilterSet, MaxLen), t \in FileTypes, x \in BOOLEAN :
          fn_in = [filters |-> fs, ftype |-> t, exec |-> x]
    /\ fn_out = None

ApplyType ==
    /\ pc = "fn"
    /\ fn_out = None
    /\ fn_out' = Apply(4, [NoOptions EXCEPT !.type_filters = fn_in.filters],
                       [TheEntry EXCEPT !.ftype = fn_in.ftype, !.exec = fn_in.exec],
                       <<>>)
    /\ UNCHANGED <<pipeVars, fn_in>>

NextType == ApplyType

SpecType == InitType /\ [][NextType]_vars

\* what the claim says a type filter matches
TypeMatch(t, ftype, exec) ==
    \/ t = "Dir" /\ ftype = "dir"
    \/ t = "File" /\ ftype = "file"
    \/ t = "SymLink" /\ ftype = "symlink"
    \/ t = "Pipe" /\ ftype = "fifo"
    \/ t = "Socket" /\ ftype = "socket"
    \/ t = "Executable" /\ exec

\* C9: with a non-empty list of type filters the type stage passes the entry
\* on if at least one filter of the list matches it and drops it otherwise;
\* whatever the list, the stage never yields an error.
C9_TypeOr ==
    fn_out # None =>
        /\ fn_out.did.res.tag = "Ok"
        /\ fn_out.x.tag = "Some" => fn_out.x.v.tag = "Ok"
        /\ fn_in.filters # <<>> =>
              IF \E i \in DOMAIN fn_in.filters :
                     TypeMatch(fn_in.filters[i], fn_in.ftype, fn_in.exec)
              THEN fn_out.x.tag = "Some"
              ELSE fn_out.x = None

\* File, SymLink passes a symlink, which only its second filter matches
C9_Witness ==
    /\ fn_in.filters = <<"File", "SymLink">>
    /\ fn_in.ftype = "symlink"
    /\ fn_out # None
    /\ fn_out.x.tag = "Some"

(* timestamps *)

DurationFilterSet ==
    { [kind |-> c, d |-> d] : c \in {"Less", "Greater"}, d \in 0..MaxTime }

TimeStages == 6..9

TimeField(k) ==
    CASE k = 6 -> "atime_filters"
      [] k = 7 -> "ctime_filters"
      [] k = 8 -> "creation_time_filters"
      [] k = 9 -> "mtime_filters"

MdField(k) ==
    CASE k = 6 -> "md_atime"
      [] k = 7 -> "md_ctime"
      [] k = 8 -> "md_created"
      [] k = 9 -> "md_mtime"

\* the inputs are enumerated list by list: the clock is read once per filter
InitTime ==
    /\ FnIdle
    /\ \E fs \in SeqsUpTo(DurationFilterSet, MaxLen) :
          \E k \in TimeStages,
             t \in { Ok(n) : n \in (-1)..MaxTime } \cup { Err(IoError) },
             ns \in [DOMAIN fs -> (-1)..MaxTime] :
             fn_in = [stage |-> k, filters |-> fs, md_time |-> t, nows |-> ns]
    /\ fn_out = None

ApplyTime ==
    /\ pc = "fn"
    /\ fn_out = None
    /\ fn_out' = Apply(fn_in.stage,
                       [NoOptions EXCEPT ![TimeField(fn_in.stage)] = fn_in.filters],
                       [TheEntry EXCEPT ![MdField(fn_in.stage)] = fn_in.md_time],
                       fn_in.nows)
    /\ UNCHANGED <<pipeVars, fn_in>>

NextTime == ApplyTime

SpecTime == InitTime /\ [][NextTime]_vars

\* what the claim says a duration filter matches, the clock reading now
DurationMatch(f, t, now) ==
    \/ f.kind = "Less" /\ now - f.d < t
    \/ f.kind = "Greater" /\ now - f.d > t

\* the timestamp is fetched and every filter of the list evaluates: the
\* clock is not before the epoch and no duration exceeds the clock reading
TimeEvaluates ==
    /\ fn_in.md_time.tag = "Ok"
    /\ fn_in.md_time.v >= 0
    /\ \A i \in DOMAIN fn_in.filters :
          fn_in.nows[i] >= 0 /\ fn_in.filters[i].d <= fn_in.nows[i]

\* C10: for each timestamp kind, with a non-empty filter list, a timestamp
\* that can be fetched and filters that all evaluate, the stage passes the
\* entry on if every filter of the list matches the timestamp and drops it
\* otherwise.
C10_TimeAnd ==
    (fn_out # None /\ fn_in.filters # <<>> /\ TimeEvaluates) =>
        IF \A i \in DOMAIN fn_in.filters :
               DurationMatch(fn_in.filters[i], fn_in.md_time.v, fn_in.nows[i])
        THEN fn_out.x = Some(Ok(TheEntry))
        ELSE fn_out.x = None

\* the creation-time stage drops an entry that only the first of its two
\* filters matches
C10_Witness ==
    /\ fn_in.stage = 8
    /\ Len(fn_in.filters) = 2
    /\ TimeEvaluates
    /\ DurationMatch(fn_in.filters[1], fn_in.md_time.v, fn_in.nows[1])
    /\ ~DurationMatch(fn_in.filters[2], fn_in.md_time.v, fn_in.nows[2])
    /\ fn_out # None
    /\ fn_out.x = None

---------------------------------------------------------------------------
(* One entry through the whole pipeline: the nine stages and try_for_each  *)
(* are applied to one entry the map adapter let through, for every choice  *)
(* of options and every outcome of the metadata probes, also of the probes *)
(* no stage makes.                                                         *)

\* stages k..9 applied to r; dids collects what each predicate did
RECURSIVE through_stages(_, _, _, _, _, _)
through_stages(k, o, r, probe, nows, dids) ==
    IF k > NumStages THEN [x |-> Some(r), dids |-> dids]
    ELSE LET x == stage_closure(k, o, r, probe, nows)
             d == IF r.tag = "Ok"
                  THEN Append(dids, matches_stage(k, o, probe, nows))
                  ELSE dids
         IN  IF x.tag # "Some" THEN [x |-> x, dids |-> d]
             ELSE through_stages(k + 1, o, x.v, probe, nows, d)

\* the clock readings of the run: the same reading for every filter
OneClock == <<3, 3, 3>>

\* the entry as the accessors see it: each probe succeeds or fails
OneProbe(p) ==
    [TheEntry EXCEPT
        !.md_uid = IF p[1] THEN Ok(1) ELSE Err(IoError),
        !.md_gid = IF p[2] THEN Ok(1) ELSE Err(IoError),
        !.md_mode = IF p[3] THEN Ok(33060) ELSE Err(IoError),
        !.md_size = IF p[4] THEN Ok(50) ELSE Err(IoError),
        !.md_atime = IF p[5] THEN Ok(0) ELSE Err(IoError),
        !.md_ctime = IF p[6] THEN Ok(2) ELSE Err(IoError),
        !.md_created = IF p[7] THEN Ok(0) ELSE Err(IoError),
        !.md_mtime = IF p[8] THEN Ok(0) ELSE Err(IoError)]

InitOne ==
    /\ \E o \in OptionsSet : options = o
    /\ term_sig = 0
    /\ pc = "fn"
    /\ stage = 0
    /\ pulled = 0
    /\ cur = Idle
    /\ evals = <<>>
    /\ out = <<>>
    /\ err = <<>>
    /\ result = None
    /\ exit_code = -1
    /\ \E p \in [1..8 -> BOOLEAN] : fn_in = OneProbe(p)
    /\ fn_out = None

RunOne ==
    /\ pc = "fn"
    /\ fn_out = None
    /\ LET y == through_stages(1, options, Ok(TheEntry), fn_in, OneClock, <<>>)
       IN  /\ fn_out' = y
           /\ out' = IF y.x.tag = "Some" /\ y.x.v.tag = "Ok"
                     THEN print_dirent(out, 1, y.x.v.v, term_sig)
                     ELSE out
           /\ err' = IF y.x.tag = "Some" /\ y.x.v.tag = "Err"
                     THEN print_error(options, y.x.v.e, 1, err)
                     ELSE err
    /\ UNCHANGED <<options, term_sig, pc, stage, pulled, cur, evals, result,
                   exit_code, fn_in>>

NextOne == RunOne

SpecOne == InitOne /\ [][NextOne]_vars

\* the filter of stage k is absent (pattern, owner, mode) or its list empty
StageUnset(k, o) ==
    CASE k = 1 -> o.pattern = None
      [] k = 2 -> o.owner = None
      [] k = 3 -> o.mode = None
      [] k = 4 -> o.type_filters = <<>>
      [] k = 5 -> o.size_filters = <<>>
      [] k = 6 -> o.atime_filters = <<>>
      [] k = 7 -> o.ctime_filters = <<>>
      [] k = 8 -> o.creation_time_filters = <<>>
      [] k = 9 -> o.mtime_filters = <<>>

\* C11: a stage whose filter is absent or whose filter list is empty answers
\* Ok(true) for the entry that reaches it without calling any accessor,
\* whatever the probes would have returned; with no filter configured at all
\* the entry passes all nine stages and its path is the line written to
\* stdout, nothing being written to stderr.
C11_UnsetStagePasses ==
    fn_out # None =>
        /\ \A k \in DOMAIN fn_out.dids :
              StageUnset(k, options) => fn_out.dids[k] = Did(Ok(TRUE), <<>>)
        /\ (\A k \in 1..NumStages : StageUnset(k, options)) =>
              /\ Len(fn_out.dids) = NumStages
              /\ fn_out.x = Some(Ok(TheEntry))
              /\ out = <<[idx |-> 1, line |-> TheEntry.path, late |-> FALSE]>>
              /\ err = <<>>

\* no filter is configured, no attribute of the entry can be fetched, and the
\* entry is written
C11_Witness ==
    /\ \A k \in 1..NumStages : StageUnset(k, options)
    /\ \A f \in {"md_uid", "md_gid", "md_mode", "md_size", "md_atime",
                 "md_ctime", "md_created", "md_mtime"} : fn_in[f] = Err(IoError)
    /\ fn_out # None
    /\ Len(out) = 1

---------------------------------------------------------------------------
(* OctalFilter::matches as a function of the filter and the mode *)

\* modes and masks: the small values, the permission sets of the unit tests
\* (0o040, 0o400, 0o444, 0o600, 0o700), each also with bit 9 set, and two
\* st_mode values with file-type bits (0o66600, 0o100644)
OctalValues ==
    LET low == (0..MaxOctal) \cup {32, 256, 292, 384, 448}
    IN  low \cup { v + 512 : v \in low } \cup {28032, 33188}

InitOctal ==
    /\ FnIdle
    /\ \E c \in {"Contains", "Equal", "NotContains"},
          m \in OctalValues, o \in OctalValues :
          fn_in = [f |-> [kind |-> c, m |-> m], o |-> o]
    /\ fn_out = None

ApplyOctal ==
    /\ pc = "fn"
    /\ fn_out = None
    /\ fn_out' = [res |-> OctalFilter_matches(fn_in.f, fn_in.o)]
    /\ UNCHANGED <<pipeVars, fn_in>>

NextOctal == ApplyOctal

SpecOctal == InitOctal /\ [][NextOctal]_vars

\* the positions of the bits set in n (n < 2^16)
Bits(n) == { i \in 0..15 : (n \div (2 ^ i)) % 2 = 1 }

\* C13: Equal(m) matches iff the bits of m are the bits of the mode among the
\* low nine, Contains(m) iff every bit of m is set in the whole mode and
\* NotContains(m) iff no bit of m is set in the whole mode; Equal(0o600)
\* matches 0o600 and 0o66600 and rejects 0o700.
C13_OctalMatches ==
    fn_out # None =>
        LET m == fn_in.f.m
            o == fn_in.o
        IN  /\ fn_in.f.kind = "Equal" =>
                  fn_out.res = (Bits(m) = Bits(o) \cap (0..8))
            /\ fn_in.f.kind = "Contains" =>
                  fn_out.res = (Bits(m) \subseteq Bits(o))
            /\ fn_in.f.kind = "NotContains" =>
                  fn_out.res = (Bits(m) \cap Bits(o) = {})
            /\ (fn_in.f = [kind |-> "Equal", m |-> 384] /\ o \in {384, 28032}) =>
                  fn_out.res
            /\ (fn_in.f = [kind |-> "Equal", m |-> 384] /\ o = 448) =>
                  ~fn_out.res

\* Equal(0o600) matches 0o66600
C13_Witness ==
    /\ fn_in.f = [kind |-> "Equal", m |-> 384]
    /\ fn_in.o = 28032
    /\ fn_out = [res |-> TRUE]

---------------------------------------------------------------------------
(* DurationFilter::matches as a function of the duration, the instant and  *)
(* the clock reading: Less(d) and Greater(d) are applied to the same       *)
(* instant under the same reading.                                         *)

InitDuration ==
    /\ FnIdle
    /\ \E d \in 0..MaxDays, t \in 0..MaxDays, now \in (-1)..MaxDays :
          fn_in = [d |-> d, instant |-> t, now |-> now]
    /\ fn_out = None

ApplyDuration ==
    /\ pc = "fn"
    /\ fn_out = None
    /\ fn_out' =
          [less |-> DurationFilter_matches([kind |-> "Less", d |-> fn_in.d],
                                           fn_in.instant, fn_in.now),
           greater |-> DurationFilter_matches([kind |-> "Greater", d |-> fn_in.d],
                                              fn_in.instant, fn_in.now)]
    /\ UNCHANGED <<pipeVars, fn_in>>

NextDuration == ApplyDuration

SpecDuration == InitDuration /\ [][NextDuration]_vars

\* C14: with the clock not before the epoch, now >= d and boundary = now - d,
\* Less(d) answers Ok(boundary < instant) and Greater(d) answers
\* Ok(boundary > instant): exactly one of them matches an instant other than
\* the boundary and neither matches the boundary itself.  With days as the
\* unit: under a reading of 3, Greater(1) and not Less(1) matches the instant
\* 1 (two days ago), Less(1) and not Greater(1) the instant 3 (now).
C14_DurationMatches ==
    (fn_out # None /\ fn_in.now >= 0 /\ fn_in.now >= fn_in.d) =>
        LET boundary == fn_in.now - fn_in.d
            t == fn_in.instant
        IN  /\ fn_out.less = Ok(boundary < t)
            /\ fn_out.greater = Ok(boundary > t)
            /\ t # boundary => (fn_out.less.v # fn_out.greater.v)
            /\ t = boundary => (~fn_out.less.v /\ ~fn_out.greater.v)
            /\ (fn_in.now = 3 /\ fn_in.d = 1 /\ t = 1) =>
                  (fn_out.greater.v /\ ~fn_out.less.v)
            /\ (fn_in.now = 3 /\ fn_in.d = 1 /\ t = 3) =>
                  (fn_out.less.v /\ ~fn_out.greater.v)

\* an instant on the boundary is matched by neither filter
C14_Witness ==
    /\ fn_in = [d |-> 1, instant |-> 2, now |-> 3]
    /\ fn_out = [less |-> Ok(FALSE), greater |-> Ok(FALSE)]

\* C15: when the duration exceeds the time elapsed since the epoch, matches
\* returns an error result (which a stage would hand on as a recoverable
\* error).
C15_UnderflowIsError ==
    (fn_out # None /\ fn_in.now >= 0 /\ fn_in.d > fn_in.now) =>
        /\ fn_out.less.tag = "Err"
        /\ fn_out.greater.tag = "Err"

---------------------------------------------------------------------------
(* Parsing of the command line: the FromStr implementations of             *)
(* src/src/filter/ and Options::parse() in main.  A token is the sequence  *)
(* of its characters.                                                      *)

ParseIntError == [type |-> "ParseIntError", sig |-> 0]
ParseSizeError == [type |-> "parse_size::Error", sig |-> 0]
HumantimeError == [type |-> "humantime::DurationError", sig |-> 0]
RegexError == [type |-> "regex::Error", sig |-> 0]
ClapError == [type |-> "clap::Error", sig |-> 0]

\* str::strip_prefix(c)
strip_prefix(s, c) ==
    IF s # <<>> /\ Head(s) = c THEN Some(Tail(s)) ELSE None

DigitChars == <<"0", "1", "2", "3", "4", "5", "6", "7", "8", "9">>

IsDigit(c, radix) == \E i \in 1..radix : DigitChars[i] = c

DigitVal(c) == (CHOOSE i \in 1..10 : DigitChars[i] = c) - 1

RECURSIVE DigitsVal(_, _, _)
DigitsVal(s, radix, acc) ==
    IF s = <<>> THEN acc
    ELSE DigitsVal(Tail(s), radix, acc * radix + DigitVal(Head(s)))

\* u32::from_str_radix / u32::from_str: an optional '+', then one or more
\* digits of the radix (the tokens of the model are too short to overflow)
u32_from_str_radix(s, radix) ==
    LET body == IF s # <<>> /\ Head(s) = "+" THEN Tail(s) ELSE s
    IN  IF body = <<>> \/ \E i \in DOMAIN body : ~IsDigit(body[i], radix)
        THEN Err(ParseIntError)
        ELSE Ok(DigitsVal(body, radix, 0))

\* parse_size::parse_size for the tokens of the model: a decimal integer
\* without unit is that many bytes, letters other than a unit are an error
parse_size(s) ==
    IF s = <<>> \/ \E i \in DOMAIN s : ~IsDigit(s[i], 10)
    THEN Err(anyhow(ParseSizeError))
    ELSE Ok(DigitsVal(s, 10, 0))

\* humantime's Duration::from_str for the tokens of the model: a decimal
\* integer followed by the unit d (days, the time unit of the model); any
\* other unit, and a missing number, is an error
humantime_parse(s) ==
    IF Len(s) < 2 \/ Last(s) # "d"
       \/ \E i \in 1..(Len(s) - 1) : ~IsDigit(s[i], 10)
    THEN Err(HumantimeError)
    ELSE Ok(DigitsVal(SubSeq(s, 1, Len(s) - 1), 10, 0))

\* SizeFilter::from_str
SizeFilter_from_str(s) ==
    LET less == strip_prefix(s, "-")
        greater == strip_prefix(s, "+")
        Make(kind, r) == IF r.tag = "Err" THEN r ELSE Ok([kind |-> kind, n |-> r.v])
    IN  IF less.tag = "Some" THEN Make("Less", parse_size(less.v))
        ELSE IF greater.tag = "Some" THEN Make("Greater", parse_size(greater.v))
        ELSE Make("Equal", parse_size(s))

\* OctalFilter::from_str
OctalFilter_from_str(s) ==
    LET contains == strip_prefix(s, "+")
        not_contains == strip_prefix(s, "~")
        Make(kind, r) == IF r.tag = "Err" THEN r ELSE Ok([kind |-> kind, m |-> r.v])
    IN  IF contains.tag = "Some"
        THEN Make("Contains", u32_from_str_radix(contains.v, 8))
        ELSE IF not_contains.tag = "Some"
        THEN Make("NotContains", u32_from_str_radix(not_contains.v, 8))
        ELSE Make("Equal", u32_from_str_radix(s, 8))

\* mutant: an unparsable duration counts as zero (unwrap_or_default)
DurationFilter_from_str_lenient(s) ==
    LET less == strip_prefix(s, "-")
        greater == strip_prefix(s, "+")
        Make(kind, r) == Ok([kind |-> kind, d |-> IF r.tag = "Err" THEN 0 ELSE r.v])
    IN  IF less.tag = "Some" THEN Make("Less", humantime_parse(less.v))
        ELSE IF greater.tag = "Some" THEN Make("Greater", humantime_parse(greater.v))
        ELSE Make("Greater", humantime_parse(s))

\* DurationFilter::from_str
DurationFilter_from_str(s) ==
    LET less == strip_prefix(s, "-")
        greater == strip_prefix(s, "+")
        Make(kind, r) == IF r.tag = "Err" THEN r ELSE Ok([kind |-> kind, d |-> r.v])
    IN  IF less.tag = "Some" THEN Make("Less", humantime_parse(less.v))
        ELSE IF greater.tag = "Some" THEN Make("Greater", humantime_parse(greater.v))
        ELSE Make("Greater", humantime_parse(s))

\* the ValueEnum of TypeFilter: the aliases d, x, f, p, s, l
TypeFilter_from_str(s) ==
    CASE s = <<"d">> -> Ok("Dir")
      [] s = <<"x">> -> Ok("Executable")
      [] s = <<"f">> -> Ok("File")
      [] s = <<"p">> -> Ok("Pipe")
      [] s = <<"s">> -> Ok("Socket")
      [] s = <<"l">> -> Ok("SymLink")
      [] OTHER -> Err(ClapError)

\* the string of a sequence of characters
RECURSIVE Concat(_)
Concat(s) == IF s = <<>> THEN "" ELSE Head(s) \o Concat(Tail(s))

\* Regex::from_str for the patterns of the model: \.<ext>$ compiles to the
\* matcher of is_match, a pattern with an unclosed bracket does not compile
Regex_from_str(s) ==
    IF \E i \in DOMAIN s : s[i] = "[" /\ \A j \in DOMAIN s : j > i => s[j] # "]"
    THEN Err(RegexError)
    ELSE IF Len(s) >= 3 /\ s[1] = "\\" /\ s[2] = "." /\ Last(s) = "$"
    THEN Ok(<<Concat(SubSeq(s, 2, Len(s) - 1))>>)
    ELSE Ok(<<>>)

\* the tokens a flag is given on the command lines of the model: one that
\* parses and one that does not
CliTokens ==
    [pattern |-> {<<"\\", ".", "m", "d", "$">>, <<"[">>},
     type |-> {<<"f">>, <<"j">>},
     size |-> {<<"+", "0">>, <<"o", "n", "e">>},
     mode |-> {<<"4", "4", "4">>, <<"0", "9", "9", "9">>},
     mtime |-> {<<"1", "d">>, <<"1", "3", "p">>}]

\* the value parser of each flag
CliParse(flag, token) ==
    CASE flag = "pattern" -> Regex_from_str(token)
      [] flag = "type" -> TypeFilter_from_str(token)
      [] flag = "size" -> SizeFilter_from_str(token)
      [] flag = "mode" -> OctalFilter_from_str(token)
      [] flag = "mtime" -> DurationFilter_from_str(token)

\* Options::parse(): argv maps each flag given to its token; an error of a
\* value parser becomes a clap error
Options_parse(argv) ==
    LET given(flag) == flag \in DOMAIN argv
        val(flag) == CliParse(flag, argv[flag]).v
    IN  IF \E flag \in DOMAIN argv : CliParse(flag, argv[flag]).tag = "Err"
        THEN Err(ClapError)
        ELSE Ok([NoOptions EXCEPT
                   !.pattern = IF given("pattern") THEN Some(val("pattern")) ELSE None,
                   !.mode = IF given("mode") THEN Some(val("mode")) ELSE None,
                   !.type_filters = IF given("type") THEN <<val("type")>> ELSE <<>>,
                   !.size_filters = IF given("size") THEN <<val("size")>> ELSE <<>>,
                   !.mtime_filters = IF given("mtime") THEN <<val("mtime")>> ELSE <<>>])

\* the process before Options::parse(): fn_in holds the command line
InitCli ==
    /\ options = NoOptions
    /\ term_sig = 0
    /\ pc = "parse"
    /\ stage = 0
    /\ pulled = 0
    /\ cur = Idle
    /\ evals = <<>>
    /\ out = <<>>
    /\ err = <<>>
    /\ result = None
    /\ exit_code = -1
    /\ \E flags \in SUBSET DOMAIN CliTokens :
          /\ Cardinality(flags) <= MaxFilters
          /\ \E argv \in [flags -> UNION { CliTokens[f] : f \in DOMAIN CliTokens }] :
                /\ \A f \in flags : argv[f] \in CliTokens[f]
                /\ fn_in = argv
    /\ fn_out = None

\* main: Options::parse() either yields the options of the run or reports the
\* error on stderr and exits with clap's usage status, 2
Parse ==
    /\ pc = "parse"
    /\ LET p == Options_parse(fn_in)
       IN  IF p.tag = "Err"
           THEN /\ err' = Append(err, [idx |-> 0, line |-> p.e.type])
                /\ exit_code' = 2
                /\ pc' = "exited"
                /\ UNCHANGED options
           ELSE /\ options' = p.v
                /\ pc' = "pull"
                /\ UNCHANGED <<err, exit_code>>
    /\ UNCHANGED <<term_sig, stage, pulled, cur, evals, out, result, fn_in, fn_out>>

NextCli ==
    \/ Parse
    \/ Next

SpecCli == InitCli /\ [][NextCli]_vars

\* the malformed tokens of the claim: an invalid pattern, an unknown type, a
\* non-numeric size, an unparsable duration (and a non-octal mode)
MalformedTokens ==
    {<<"[">>, <<"j">>, <<"o", "n", "e">>, <<"1", "3", "p">>, <<"0", "9", "9", "9">>}

\* C16: when a token of the command line is malformed the process exits with
\* a failure status and a message on stderr straight from parsing: nothing
\* is ever pulled from a walker, no predicate is evaluated, nothing is
\* written to stdout and run never returns.
C16_ParseErrorExits ==
    (\E f \in DOMAIN fn_in : fn_in[f] \in MalformedTokens) =>
        /\ pc \in {"parse", "exited"}
        /\ pulled = 0 /\ cur = Idle /\ evals = <<>>
        /\ out = <<>>
        /\ result = None
        /\ pc = "exited" => (exit_code \notin {-1, 0} /\ Len(err) = 1)

\* --type f --mtime 13p: the run ended in parsing
C16_Witness ==
    /\ DOMAIN fn_in = {"type", "mtime"}
    /\ fn_in["type"] = <<"f">>
    /\ fn_in["mtime"] = <<"1", "3", "p">>
    /\ pc = "exited"
    /\ exit_code = 2

---------------------------------------------------------------------------
(* OwnerFilter::from_str as a function of the token and of the user/group  *)
(* database: db.users and db.groups are sets of [name, id] entries.        *)

InvalidUser == [type |-> "invalid user", sig |-> 0]
InvalidGroup == [type |-> "invalid group", sig |-> 0]

\* users::get_user_by_uid / get_group_by_gid
get_by_id(entries, id) ==
    IF \E e \in entries : e.id = id
    THEN Some(CHOOSE e \in entries : e.id = id)
    ELSE None

\* users::get_user_by_name / get_group_by_name
get_by_name(entries, name) ==
    IF \E e \in entries : e.name = name
    THEN Some(CHOOSE e \in entries : e.name = name)
    ELSE None

parse_user(db, s) ==
    LET n == u32_from_str_radix(s, 10)
        u == IF n.tag = "Ok" THEN get_by_id(db.users, n.v)
             ELSE get_by_name(db.users, s)
    IN  IF u.tag = "Some" THEN Ok(u.v.id) ELSE Err(anyhow(InvalidUser))

parse_group(db, s) ==
    LET n == u32_from_str_radix(s, 10)
        g == IF n.tag = "Ok" THEN get_by_id(db.groups, n.v)
             ELSE get_by_name(db.groups, s)
    IN  IF g.tag = "Some" THEN Ok(g.v.id) ELSE Err(anyhow(InvalidGroup))

\* str::split_once(c)
split_once(s, c) ==
    IF \E i \in DOMAIN s : s[i] = c
    THEN LET i == CHOOSE i \in DOMAIN s : s[i] = c /\ \A j \in 1..(i - 1) : s[j] # c
         IN  Some(<<SubSeq(s, 1, i - 1), SubSeq(s, i + 1, Len(s))>>)
    ELSE None

\* mutant: there is no arm for "user:", the empty group is looked up
OwnerFilter_from_str_no_suffix(db, s) ==
    LET sp == split_once(s, ":")
        User(u) == IF u.tag = "Err" THEN u ELSE Ok([kind |-> "User", uid |-> u.v])
        Group(g) == IF g.tag = "Err" THEN g ELSE Ok([kind |-> "Group", gid |-> g.v])
        UserGroup(u, g) ==
            IF u.tag = "Err" THEN u
            ELSE IF g.tag = "Err" THEN g
            ELSE Ok([kind |-> "UserGroup", uid |-> u.v, gid |-> g.v])
    IN  IF sp.tag = "None" THEN User(parse_user(db, s))
        ELSE IF sp.v[1] = <<>> THEN Group(parse_group(db, sp.v[2]))
        ELSE UserGroup(parse_user(db, sp.v[1]), parse_group(db, sp.v[2]))

\* OwnerFilter::from_str: the arms of the match, in order
OwnerFilter_from_str(db, s) ==
    LET sp == split_once(s, ":")
        User(u) == IF u.tag = "Err" THEN u ELSE Ok([kind |-> "User", uid |-> u.v])
        Group(g) == IF g.tag = "Err" THEN g ELSE Ok([kind |-> "Group", gid |-> g.v])
        UserGroup(u, g) ==
            IF u.tag = "Err" THEN u
            ELSE IF g.tag = "Err" THEN g
            ELSE Ok([kind |-> "UserGroup", uid |-> u.v, gid |-> g.v])
    IN  IF sp.tag = "None" THEN User(parse_user(db, s))
        ELSE IF sp.v[2] = <<>> THEN User(parse_user(db, sp.v[1]))
        ELSE IF sp.v[1] = <<>> THEN Group(parse_group(db, sp.v[2]))
        ELSE UserGroup(parse_user(db, sp.v[1]), parse_group(db, sp.v[2]))

\* the characters of the owner tokens
OwnerChars == {"a", "b", ":", "1"}

\* the databases: empty; one user and one group; two of each, a group
\* carrying a user's name
OwnerDbs ==
    { [users |-> {}, groups |-> {}],
      [users |-> {[name |-> <<"a">>, id |-> 1]},
       groups |-> {[name |-> <<"b">>, id |-> 1]}],
      [users |-> {[name |-> <<"a">>, id |-> 2], [name |-> <<"a", "b">>, id |-> 11]},
       groups |-> {[name |-> <<"b">>, id |-> 2], [name |-> <<"a">>, id |-> 1]}] }

InitOwner ==
    /\ FnIdle
    /\ \E db \in OwnerDbs, n \in 0..MaxToken :
          \E s \in [1..n -> OwnerChars] : fn_in = [db |-> db, token |-> s]
    /\ fn_out = None

ApplyOwner ==
    /\ pc = "fn"
    /\ fn_out = None
    /\ fn_out' = OwnerFilter_from_str(fn_in.db, fn_in.token)
    /\ UNCHANGED <<pipeVars, fn_in>>

NextOwner == ApplyOwner

SpecOwner == InitOwner /\ [][NextOwner]_vars

\* the decimal numeral of n
RECURSIVE Numeral(_)
Numeral(n) ==
    IF n < 10 THEN <<DigitChars[n + 1]>>
    ELSE Numeral(n \div 10) \o <<DigitChars[(n % 10) + 1]>>

\* the ids a name resolves to: those of the entries with that name or, for a
\* numeric id given in decimal, with that id
Resolve(entries, name) ==
    { e.id : e \in { e \in entries : name \in {e.name, Numeral(e.id)} } }

\* C17: with the token split at its first ':' into a user part and a group
\* part (no ':' : the whole token is the user part), "name" and "name:" parse
\* to User(uid(name)), ":group" to Group(gid(group)) and "name:group" to
\* UserGroup(uid(name), gid(group)); when a part that is looked up resolves
\* to nothing the parse fails with an invalid user or invalid group error.
C17_OwnerParse ==
    fn_out # None =>
        LET s == fn_in.token
            colons == { i \in DOMAIN s : s[i] = ":" }
            first == IF colons = {} THEN Len(s) + 1
                     ELSE CHOOSE i \in colons : \A j \in colons : i <= j
            user == SubSeq(s, 1, first - 1)
            group == SubSeq(s, first + 1, Len(s))
            U == Resolve(fn_in.db.users, user)
            G == Resolve(fn_in.db.groups, group)
        IN  IF group = <<>>
            THEN IF U = {} THEN fn_out = Err(InvalidUser)
                 ELSE \E u \in U : fn_out = Ok([kind |-> "User", uid |-> u])
            ELSE IF user = <<>>
            THEN IF G = {} THEN fn_out = Err(InvalidGroup)
                 ELSE \E g \in G : fn_out = Ok([kind |-> "Group", gid |-> g])
            ELSE IF U = {} \/ G = {}
                 THEN fn_out \in {Err(InvalidUser), Err(InvalidGroup)}
                 ELSE \E u \in U, g \in G :
                         fn_out = Ok([kind |-> "UserGroup", uid |-> u, gid |-> g])

\* "a:" parses to User(uid(a))
C17_Witness ==
    /\ fn_in.token = <<"a", ":">>
    /\ fn_in.db.users = {[name |-> <<"a">>, id |-> 1]}
    /\ fn_out = Ok([kind |-> "User", uid |-> 1])

===========================================================================
